---- MODULE Spec2Model ----
(***************************************************************************)
(* Bridge builder (src/bridge_game.py): the build-mode editor with its     *)
(* undo/redo history, the start/stop lifecycle, and the per-frame physics  *)
(* update (collider synchronisation, physics step, fracture / plasticity / *)
(* stress pass).                                                           *)
(*                                                                         *)
(* Conventions.                                                            *)
(*  - Python lists are sequences; node indices stored in beams keep the    *)
(*    program's 0-based numbering, so element i of a list l is l[i + 1].   *)
(*  - All points lie on one vertical line (x = 0), so every length the     *)
(*    program computes with math.hypot / Vec2d.length is an integer and is *)
(*    modelled exactly; Length fails rather than round.                    *)
(*  - The ratios 1.4, 1.05 and 0.7 are kept as the fractions 140/100,      *)
(*    105/100 and 70/100; a strain is the exact fraction <<num, den>>.     *)
(*  - pymunk's space.step is a black box: it may move every DYNAMIC body   *)
(*    to any point of the bounded set StepYs and moves nothing else.       *)
(*  - An uncaught IndexError ends the process: pc = "crashed".             *)
(***************************************************************************)
EXTENDS Integers, Sequences, FiniteSets, TLC

\* ------------------------------------------------------------------ bounds
\* Most snapshots the undo history may hold, from construction (Spec) and
\* from an already built graph (SpecEdit).
MaxHistory == 5
MaxHistoryEdit == 8

\* y coordinates the mouse may be at (x is always 0), and y coordinates
\* space.step may move a DYNAMIC body to, under Spec.
ClickYs == {0, 5, 20}
StepYs == {20, 29}
\* The same under SpecEdit and SpecRun.
EditClickYs == {0, 10, 20, 40}
RunClickYs == {0}
RunStepYs == {13, 14, 20, 21, 22, 28, 29}

\* --------------------------------------------------------------- constants
pick_radius == 8
\* Python's None where an index is expected, and where an object is expected.
None == -1
Nil == <<>>
\* The value standing for a raised IndexError where an index is expected.
IndexError == -2

VARIABLES
    nodes, node_is_anchor, beams, selected_node, simulate_mode,
    history, redo_stack,
    space, pm_nodes, pm_joints_pin, pm_joints_spring, rest_lengths, pm_load,
    beam_indices, pm_beam_bodies, pm_beam_shapes,
    static_beams, pm_beam_bodies_static, pm_beam_shapes_static,
    pm_bend_springs, beam_stress,
    mouse, pc, fractured, phases, run_start

build_vars == <<nodes, node_is_anchor, beams>>
hist_vars == <<history, redo_stack>>
phys_vars ==
    <<space, pm_nodes, pm_joints_pin, pm_joints_spring, rest_lengths, pm_load,
      beam_indices, pm_beam_bodies, pm_beam_shapes,
      static_beams, pm_beam_bodies_static, pm_beam_shapes_static,
      pm_bend_springs, beam_stress>>
vars ==
    <<nodes, node_is_anchor, beams, selected_node, simulate_mode,
      history, redo_stack,
      space, pm_nodes, pm_joints_pin, pm_joints_spring, rest_lengths, pm_load,
      beam_indices, pm_beam_bodies, pm_beam_shapes,
      static_beams, pm_beam_bodies_static, pm_beam_shapes_static,
      pm_bend_springs, beam_stress,
      mouse, pc, fractured, phases, run_start>>

\* ----------------------------------------------------------- list helpers
\* Python's "x in l".
In(x, l) == \E k \in 1..Len(l) : l[k] = x

\* Python's "del l[i]" (0-based i).
DelAt(l, i) == [k \in 1..(Len(l) - 1) |-> IF k <= i THEN l[k] ELSE l[k + 1]]

\* Python's "l.remove(x)": drops the first occurrence of x.
Remove(l, x) ==
    LET first == CHOOSE k \in 1..Len(l) : l[k] = x /\ \A j \in 1..(k - 1) : l[j] # x
    IN  DelAt(l, first - 1)

\* frozenset((a, b)).
Key(ab) == {ab[1], ab[2]}

\* -------------------------------------------------------- undo / redo
Snapshot(ns, an, bs) == <<ns, an, bs>>

\* push_history(): the lists after the call, for the build state (ns, an, bs).
push_history(ns, an, bs) ==
    /\ history' = Append(history, Snapshot(ns, an, bs))
    /\ redo_stack' = <<>>

\* Room left under the history bound cap for one more snapshot.
CanPush(cap) == Len(history) < cap

undo ==
    IF Len(history) > 1
    THEN LET state == history[Len(history)]
             popped == SubSeq(history, 1, Len(history) - 1)
             prev == popped[Len(popped)]
         IN  /\ history' = popped
             /\ redo_stack' = Append(redo_stack, state)
             /\ nodes' = prev[1]
             /\ node_is_anchor' = prev[2]
             /\ beams' = prev[3]
    ELSE UNCHANGED <<build_vars, hist_vars>>

redo ==
    IF redo_stack # <<>>
    THEN LET state == redo_stack[Len(redo_stack)]
         IN  /\ redo_stack' = SubSeq(redo_stack, 1, Len(redo_stack) - 1)
             /\ history' = Append(history, state)
             /\ nodes' = state[1]
             /\ node_is_anchor' = state[2]
             /\ beams' = state[3]
    ELSE UNCHANGED <<build_vars, hist_vars>>

clear_all ==
    /\ nodes' = <<>>
    /\ node_is_anchor' = <<>>
    /\ beams' = <<>>

\* ------------------------------------------------ build-mode selection
\* Only a node exactly at (x, y) is found (mutant of find_node_at_position).
find_node_at_position_exact(x, y) ==
    LET near == {i \in 0..(Len(nodes) - 1) : nodes[i + 1] = <<x, y>>}
    IN  IF near = {} THEN None
        ELSE CHOOSE i \in near : \A j \in near : i <= j

\* Index of the first node within pick_radius of (x, y), or None.
find_node_at_position(x, y) ==
    LET r2 == pick_radius * pick_radius
        near == {i \in 0..(Len(nodes) - 1) :
                    (x - nodes[i + 1][1]) * (x - nodes[i + 1][1])
                  + (y - nodes[i + 1][2]) * (y - nodes[i + 1][2]) < r2}
    IN  IF near = {} THEN None
        ELSE CHOOSE i \in near : \A j \in near : i <= j

\* ------------------------------------------------------------- geometry
\* math.hypot(dx, dy) / Vec2d.length, exact: no value if the length is not
\* an integer (never the case for points on one line).
Length(dx, dy) ==
    LET s == dx * dx + dy * dy
        m == (IF dx < 0 THEN -dx ELSE dx) + (IF dy < 0 THEN -dy ELSE dy)
    IN  CHOOSE r \in 0..m : r * r = s

\* Whether every beam of bs indexes a list of n elements (no IndexError).
IndicesValid(bs, n) ==
    \A k \in 1..Len(bs) : bs[k][1] < n /\ bs[k][2] < n

threshold == 6

\* One beam of find_beam_at_position's loop: <<num, den>> with
\* dist^2 = num / den, for the cursor (px, py) and the segment A-B.
SegmentDist2(px, py, A, B) ==
    LET vx == B[1] - A[1]
        vy == B[2] - A[2]
        wx == px - A[1]
        wy == py - A[2]
        seg_len2 == vx * vx + vy * vy
        dot == wx * vx + wy * vy
        \* t = max(0.0, min(1.0, dot / seg_len2)) = n / seg_len2
        n == IF dot < 0 THEN 0 ELSE IF dot > seg_len2 THEN seg_len2 ELSE dot
    IN  <<(wx * wx + wy * wy) * seg_len2 - 2 * n * dot + n * n, seg_len2>>

RECURSIVE FindBeamLoop(_, _, _, _, _)
\* The loop of find_beam_at_position from beam i (1-based) on, with the best
\* beam so far (0-based index or None) and its squared distance best_d2.
FindBeamLoop(i, px, py, best_index, best_d2) ==
    IF i > Len(beams) THEN best_index
    ELSE LET A == nodes[beams[i][1] + 1]
             B == nodes[beams[i][2] + 1]
             d2 == SegmentDist2(px, py, A, B)
         IN  IF d2[2] = 0
             THEN FindBeamLoop(i + 1, px, py, best_index, best_d2)
             ELSE IF /\ d2[1] < threshold * threshold * d2[2]
                     /\ \/ best_index = None
                        \/ d2[1] * best_d2[2] < best_d2[1] * d2[2]
             THEN FindBeamLoop(i + 1, px, py, i - 1, d2)
             ELSE FindBeamLoop(i + 1, px, py, best_index, best_d2)

\* Index of the beam under the cursor, None, or IndexError when a beam
\* names a node that does not exist.
find_beam_at_position(x, y) ==
    IF ~IndicesValid(beams, Len(nodes)) THEN IndexError
    ELSE FindBeamLoop(1, x, y, None, <<0, 1>>)

RECURSIVE ReindexLoop(_, _, _)
\* The loop of delete_node over beams bs from position k on.
ReindexLoop(bs, k, index) ==
    IF k > Len(bs) THEN <<>>
    ELSE LET a == bs[k][1]
             b == bs[k][2]
         IN  IF a = index \/ b = index
             THEN ReindexLoop(bs, k + 1, index)
             ELSE <<  <<IF a > index THEN a - 1 ELSE a,
                        IF b > index THEN b - 1 ELSE b>>  >>
                  \o ReindexLoop(bs, k + 1, index)

\* delete_node without the reindexing of the beams above index (mutant of
\* delete_node).
delete_node_no_reindex(index) ==
    [nodes |-> DelAt(nodes, index),
     node_is_anchor |-> DelAt(node_is_anchor, index),
     beams |-> SelectSeq(beams, LAMBDA e : e[1] # index /\ e[2] # index)]

\* delete_node(index): the three build lists after the call.
delete_node(index) ==
    [nodes |-> DelAt(nodes, index),
     node_is_anchor |-> DelAt(node_is_anchor, index),
     beams |-> ReindexLoop(beams, 1, index)]

\* ------------------------------------------------------ physics helpers
RECURSIVE Gcd(_, _)
Gcd(m, n) == IF n = 0 THEN m ELSE Gcd(n, m % n)

\* The fraction num / den (den > 0) in lowest terms: a strain value.
Frac(num, den) ==
    LET g == Gcd(IF num < 0 THEN -num ELSE num, den)
    IN  <<num \div g, den \div g>>

\* The float 0.0.
Zero == <<0, 1>>

EmptyStress == [key \in {} |-> Zero]
\* beam_stress[key] = v
SetStress(f, key, v) ==
    [x \in (DOMAIN f) \cup {key} |-> IF x = key THEN v ELSE f[x]]
\* The entry is left in the map (mutant of PopStress).
PopStressKeep(f, key) == f

\* The whole map is cleared when a beam breaks (mutant of PopStress).
PopStressAll(f, key) == EmptyStress

\* beam_stress.pop(key, None)
PopStress(f, key) == [x \in (DOMAIN f) \ {key} |-> f[x]]

\* create_beam_collider(space, A_pos, B_pos) for the beam with handle id:
\* the kinematic body (position2 is twice its position, angle the
\* arguments <<dy, dx>> of atan2) and the segment shape, which spans
\* (-length/2, 0) .. (length/2, 0).
create_beam_collider(id, A_pos, B_pos) ==
    LET dx == B_pos[1] - A_pos[1]
        dy == B_pos[2] - A_pos[2]
        hyp == Length(dx, dy)
        length == IF hyp = 0 THEN 1 ELSE hyp
    IN  [body |-> [id |-> id,
                   position2 |-> <<A_pos[1] + B_pos[1], A_pos[2] + B_pos[2]>>,
                   angle |-> <<dy, dx>>],
         shape |-> [id |-> id, length |-> length]]

\* One beam of update_beam_collision_shapes: the collider of the beam with
\* handle id realigned to the endpoints A, B.
SyncCollider(id, A, B) ==
    LET dx == B[1] - A[1]
        dy == B[2] - A[2]
        length == Length(dx, dy)
    IN  [body |-> [id |-> id,
                   position2 |-> <<A[1] + B[1], A[2] + B[2]>>,
                   angle |-> <<dy, dx>>],
         shape |-> [id |-> id, length |-> length]]

\* The node bodies start_simulation creates.
NodeBodies ==
    [i \in 1..Len(nodes) |->
        [body_type |-> IF node_is_anchor[i] THEN "STATIC" ELSE "DYNAMIC",
         position |-> nodes[i]]]

\* The physics globals as start_simulation resets them, with the node bodies.
FreshWorld ==
    [space |-> [constraints |-> {}, colliders |-> {}],
     pm_nodes |-> NodeBodies,
     pm_joints_pin |-> <<>>, pm_joints_spring |-> <<>>, rest_lengths |-> <<>>,
     beam_indices |-> <<>>, pm_beam_bodies |-> <<>>, pm_beam_shapes |-> <<>>,
     static_beams |-> <<>>, pm_beam_bodies_static |-> <<>>,
     pm_beam_shapes_static |-> <<>>,
     pm_bend_springs |-> <<>>, beam_stress |-> EmptyStress,
     error |-> FALSE]

\* No beam is ever built static (mutant of IsStaticBeam).
IsStaticBeamNever(a, b) == FALSE

\* node_is_anchor[a] and node_is_anchor[b]
IsStaticBeam(a, b) == node_is_anchor[a + 1] /\ node_is_anchor[b + 1]

RECURSIVE CreateBeams(_, _)
\* The "create beams + springs" loop of start_simulation from beam k (1-based)
\* on; w holds the globals so far. The handle of a beam's objects is its
\* 0-based position in beams. w.error: pm_nodes[a] raised IndexError.
CreateBeams(k, w) ==
    IF k > Len(beams) THEN w
    ELSE LET a == beams[k][1]
             b == beams[k][2]
         IN  IF a >= Len(w.pm_nodes) \/ b >= Len(w.pm_nodes)
             THEN [w EXCEPT !.error = TRUE]
             ELSE LET A == w.pm_nodes[a + 1]
                      B == w.pm_nodes[b + 1]
                      c == create_beam_collider(k - 1, A.position, B.position)
                      rest == Length(A.position[1] - B.position[1],
                                     A.position[2] - B.position[2])
                  IN  IF IsStaticBeam(a, b)
                      THEN CreateBeams(k + 1,
                             [w EXCEPT
                                !.space.colliders = @ \cup {k - 1},
                                !.static_beams = Append(@, <<a, b>>),
                                !.pm_beam_bodies_static = Append(@, c.body),
                                !.pm_beam_shapes_static = Append(@, c.shape),
                                !.beam_stress = SetStress(@, {a, b}, Zero)])
                      ELSE CreateBeams(k + 1,
                             [w EXCEPT
                                !.rest_lengths = Append(@, rest),
                                !.space.constraints = @ \cup {k - 1},
                                !.pm_joints_pin = Append(@, [id |-> k - 1]),
                                !.pm_joints_spring =
                                    Append(@, [id |-> k - 1, rest_length |-> rest]),
                                !.beam_indices = Append(@, <<a, b>>),
                                !.space.colliders = @ \cup {k - 1},
                                !.pm_beam_bodies = Append(@, c.body),
                                !.pm_beam_shapes = Append(@, c.shape),
                                !.beam_stress = SetStress(@, {a, b}, Zero)])

RECURSIVE AdjacencyKeys(_, _, _)
\* Keys of the adjacency dict in insertion order, from beam k of bi on.
AdjacencyKeys(bi, k, keys) ==
    IF k > Len(bi) THEN keys
    ELSE LET a == bi[k][1]
             b == bi[k][2]
             ka == IF In(a, keys) THEN keys ELSE Append(keys, a)
             kb == IF In(b, ka) THEN ka ELSE Append(ka, b)
         IN  AdjacencyKeys(bi, k + 1, kb)

RECURSIVE Neighbors(_, _, _)
\* adjacency[center], from beam k of bi on.
Neighbors(bi, k, center) ==
    IF k > Len(bi) THEN <<>>
    ELSE (IF bi[k][1] = center THEN <<bi[k][2]>> ELSE <<>>)
         \o (IF bi[k][2] = center THEN <<bi[k][1]>> ELSE <<>>)
         \o Neighbors(bi, k + 1, center)

RECURSIVE BendPairs(_, _, _, _)
\* The bend springs of one center: one per i < j, in loop order.
BendPairs(pmn, neighbors, i, j) ==
    IF i > Len(neighbors) THEN <<>>
    ELSE IF j > Len(neighbors) THEN BendPairs(pmn, neighbors, i + 1, i + 2)
    ELSE LET n1 == neighbors[i]
             n2 == neighbors[j]
             A == pmn[n1 + 1].position
             B == pmn[n2 + 1].position
         IN  << [a |-> n1, b |-> n2,
                 rest_length |-> Length(A[1] - B[1], A[2] - B[2])] >>
             \o BendPairs(pmn, neighbors, i, j + 1)

RECURSIVE BendSprings(_, _, _, _)
\* The "soft bending springs" loop of start_simulation over the centers.
BendSprings(pmn, bi, centers, k) ==
    IF k > Len(centers) THEN <<>>
    ELSE LET neighbors == Neighbors(bi, 1, centers[k])
         IN  (IF Len(neighbors) < 2 THEN <<>>
              ELSE BendPairs(pmn, neighbors, 1, 2))
             \o BendSprings(pmn, bi, centers, k + 1)

\* start_simulation(): the physics globals it leaves (pm_load apart).
start_simulation ==
    LET w == CreateBeams(1, FreshWorld)
    IN  IF w.error THEN w
        ELSE [w EXCEPT !.pm_bend_springs =
                BendSprings(w.pm_nodes, w.beam_indices,
                            AdjacencyKeys(w.beam_indices, 1, <<>>), 1)]

\* ------------------------------------------------- material / fracture
\* break_ratio = 1.4, plastic_ratio = 1.05, compress_ratio = 0.7, in hundredths.
break_ratio == 140
plastic_ratio == 105
compress_ratio == 70

\* The break test with >= and <= (mutant of Breaks).
BreaksInclusive(dist, rest) ==
    \/ dist * 100 >= rest * break_ratio
    \/ dist * 100 <= rest * compress_ratio

\* dist > rest * break_ratio or dist < rest * compress_ratio
Breaks(dist, rest) ==
    \/ dist * 100 > rest * break_ratio
    \/ dist * 100 < rest * compress_ratio

\* No beam ever yields (mutant of Yields).
YieldsNever(dist, rest) == FALSE

\* dist > rest * plastic_ratio
Yields(dist, rest) == dist * 100 > rest * plastic_ratio

\* The rest length a surviving beam leaves the pass with.
PlasticRest(dist, rest) == IF Yields(dist, rest) THEN dist ELSE rest

\* The spring is never told its new rest length (mutant of PlasticSpring).
PlasticSpringStale(spring, dist, rest) == spring

\* The spring a surviving beam leaves the pass with (spring.rest_length = dist).
PlasticSpring(spring, dist, rest) ==
    IF Yields(dist, rest) THEN [spring EXCEPT !.rest_length = dist] ELSE spring

\* The strain stored for a surviving beam whose rest length is now rest.
Strain(dist, rest) == IF rest # 0 THEN Frac(dist - rest, rest) ELSE Zero

\* The strain taken against the rest length from before the plastic update
\* (mutant of StoredStrain).
StoredStrainStale(dist, rest) == Strain(dist, rest)

\* The strain the pass stores for a surviving beam that entered it with rest.
StoredStrain(dist, rest) == Strain(dist, PlasticRest(dist, rest))

\* The beam list is left alone (mutant of RemoveBeam).
RemoveBeamNever(bs, a, b) == bs

\* The beam is removed and the survivors are left in reverse order (mutant
\* of RemoveBeam).
RemoveBeamReversed(bs, a, b) ==
    LET kept == SelectSeq(bs, LAMBDA e : Key(e) # {a, b})
    IN  [k \in 1..Len(kept) |-> kept[Len(kept) + 1 - k]]

\* if (a, b) in beams: beams.remove((a, b)) elif (b, a) in beams: beams.remove((b, a))
RemoveBeam(bs, a, b) ==
    IF In(<<a, b>>, bs) THEN Remove(bs, <<a, b>>)
    ELSE IF In(<<b, a>>, bs) THEN Remove(bs, <<b, a>>)
    ELSE bs

\* Distance between the bodies of nodes a and b.
Dist(pmn, a, b) ==
    Length(pmn[a + 1].position[1] - pmn[b + 1].position[1],
           pmn[a + 1].position[2] - pmn[b + 1].position[2])

\* Length of zip(...) over the six elastic-beam lists.
ZipLen ==
    LET lens == {Len(beam_indices), Len(rest_lengths), Len(pm_joints_pin),
                 Len(pm_joints_spring), Len(pm_beam_bodies), Len(pm_beam_shapes)}
    IN  CHOOSE n \in lens : \A m \in lens : n <= m

\* new_pins starts as the live pin list instead of empty (mutant of
\* PassStart).
PassStartStalePins ==
    [beam_indices |-> <<>>, rest_lengths |-> <<>>, pm_joints_pin |-> pm_joints_pin,
     pm_joints_spring |-> <<>>, pm_beam_bodies |-> <<>>, pm_beam_shapes |-> <<>>,
     beams |-> beams, beam_stress |-> beam_stress, space |-> space,
     fractured |-> fractured]

\* What the fracture pass starts from: empty new_* lists, the globals it edits.
PassStart ==
    [beam_indices |-> <<>>, rest_lengths |-> <<>>, pm_joints_pin |-> <<>>,
     pm_joints_spring |-> <<>>, pm_beam_bodies |-> <<>>, pm_beam_shapes |-> <<>>,
     beams |-> beams, beam_stress |-> beam_stress, space |-> space,
     fractured |-> fractured]

\* One iteration of the "beam breaking and stress updates" loop: the beam at
\* position k of the zipped lists, with the new_* lists and globals in acc.
FractureBeam(k, acc) ==
    LET a == beam_indices[k][1]
        b == beam_indices[k][2]
        rest == rest_lengths[k]
        pin == pm_joints_pin[k]
        spring == pm_joints_spring[k]
        body == pm_beam_bodies[k]
        shape == pm_beam_shapes[k]
        dist == Dist(pm_nodes, a, b)
        key == {a, b}
    IN  IF Breaks(dist, rest)
        THEN [acc EXCEPT
                !.space.constraints = @ \ {pin.id},
                !.space.colliders = @ \ {body.id},
                !.beams = RemoveBeam(@, a, b),
                !.beam_stress = PopStress(@, key),
                !.fractured = @ \cup {key}]
        ELSE LET new_rest == PlasticRest(dist, rest)
                 new_spring == PlasticSpring(spring, dist, rest)
             IN  [acc EXCEPT
                    !.beam_stress = SetStress(@, key, StoredStrain(dist, rest)),
                    !.beam_indices = Append(@, <<a, b>>),
                    !.rest_lengths = Append(@, new_rest),
                    !.pm_joints_pin = Append(@, pin),
                    !.pm_joints_spring = Append(@, new_spring),
                    !.pm_beam_bodies = Append(@, body),
                    !.pm_beam_shapes = Append(@, shape)]

RECURSIVE FractureLoop(_, _)
\* The "beam breaking and stress updates" loop from position k on.
FractureLoop(k, acc) ==
    IF k > ZipLen THEN acc
    ELSE FractureLoop(k + 1, FractureBeam(k, acc))

\* create_load(space): the load body (its motion is not tracked).
create_load == [mass |-> 5, size |-> 20]

\* The stress map survives the stop (mutant of stop_simulation).
stop_simulation_keeps_stress ==
    [space |-> Nil,
     pm_nodes |-> <<>>,
     pm_joints_pin |-> <<>>, pm_joints_spring |-> <<>>, rest_lengths |-> <<>>,
     beam_indices |-> <<>>, pm_beam_bodies |-> <<>>, pm_beam_shapes |-> <<>>,
     static_beams |-> <<>>, pm_beam_bodies_static |-> <<>>,
     pm_beam_shapes_static |-> <<>>,
     pm_bend_springs |-> <<>>, beam_stress |-> beam_stress]

\* stop_simulation(): the physics globals it leaves (pm_load apart).
stop_simulation ==
    [space |-> Nil,
     pm_nodes |-> <<>>,
     pm_joints_pin |-> <<>>, pm_joints_spring |-> <<>>, rest_lengths |-> <<>>,
     beam_indices |-> <<>>, pm_beam_bodies |-> <<>>, pm_beam_shapes |-> <<>>,
     static_beams |-> <<>>, pm_beam_bodies_static |-> <<>>,
     pm_beam_shapes_static |-> <<>>,
     pm_bend_springs |-> <<>>, beam_stress |-> EmptyStress]

\* The physics globals take the values held by the record w.
AssignWorld(w) ==
    /\ space' = w.space
    /\ pm_nodes' = w.pm_nodes
    /\ pm_joints_pin' = w.pm_joints_pin
    /\ pm_joints_spring' = w.pm_joints_spring
    /\ rest_lengths' = w.rest_lengths
    /\ beam_indices' = w.beam_indices
    /\ pm_beam_bodies' = w.pm_beam_bodies
    /\ pm_beam_shapes' = w.pm_beam_shapes
    /\ static_beams' = w.static_beams
    /\ pm_beam_bodies_static' = w.pm_beam_bodies_static
    /\ pm_beam_shapes_static' = w.pm_beam_shapes_static
    /\ pm_bend_springs' = w.pm_bend_springs
    /\ beam_stress' = w.beam_stress

\* ---------------------------------------------------------------- events
Points(Ys) == {<<0, y>> : y \in Ys}

\* KEYDOWN K_SPACE: toggle simulation mode. fractured restarts with the run;
\* run_start is the build state the run started from (Nil outside a run).
KeySpace ==
    /\ pc = "events"
    /\ simulate_mode' = ~simulate_mode
    /\ IF ~simulate_mode
       THEN LET w == start_simulation
            IN  /\ AssignWorld(w)
                /\ pm_load' = IF w.error THEN pm_load ELSE create_load
                /\ pc' = IF w.error THEN "crashed" ELSE pc
       ELSE /\ AssignWorld(stop_simulation)
            /\ pm_load' = Nil
            /\ pc' = pc
    /\ fractured' = {}
    /\ run_start' = IF ~simulate_mode THEN Snapshot(nodes, node_is_anchor, beams)
                   ELSE Nil
    /\ UNCHANGED <<build_vars, selected_node, hist_vars, mouse, phases>>

\* Undo without the build-mode test (mutant of KeyZ).
KeyZAnyMode ==
    /\ pc = "events"
    /\ undo
    /\ UNCHANGED <<selected_node, simulate_mode, phys_vars, mouse, pc,
                   fractured, phases, run_start>>

\* KEYDOWN K_z
KeyZ ==
    /\ pc = "events"
    /\ IF ~simulate_mode
       THEN /\ undo
            /\ UNCHANGED <<selected_node, simulate_mode, phys_vars, mouse, pc,
                           fractured, phases, run_start>>
       ELSE UNCHANGED vars

\* KEYDOWN K_y
KeyY ==
    /\ pc = "events"
    /\ IF ~simulate_mode
       THEN /\ redo
            /\ UNCHANGED <<selected_node, simulate_mode, phys_vars, mouse, pc,
                           fractured, phases, run_start>>
       ELSE UNCHANGED vars

\* KEYDOWN K_c
key_c(cap) ==
    /\ pc = "events"
    /\ IF ~simulate_mode
       THEN /\ CanPush(cap)
            /\ clear_all
            /\ push_history(<<>>, <<>>, <<>>)
            /\ UNCHANGED <<selected_node, simulate_mode, phys_vars, mouse, pc,
                           fractured, phases, run_start>>
       ELSE UNCHANGED vars

\* A beam (a, b) is missing in only one orientation: the check a plausible
\* slip would make (mutant of CanConnect).
CanConnectOneWay(a, b) == a # b /\ ~In(<<a, b>>, beams)

\* a != b and (a, b) not in beams and (b, a) not in beams
CanConnect(a, b) == a # b /\ ~In(<<a, b>>, beams) /\ ~In(<<b, a>>, beams)

\* MOUSEBUTTONDOWN button 1: create a node or connect two nodes.
left_click(cap) ==
    /\ pc = "events"
    /\ IF simulate_mode THEN UNCHANGED vars
       ELSE
        LET clicked == find_node_at_position(mouse[1], mouse[2])
        IN  /\ IF clicked = None
               THEN /\ CanPush(cap)
                    /\ nodes' = Append(nodes, mouse)
                    /\ node_is_anchor' = Append(node_is_anchor, FALSE)
                    /\ beams' = beams
                    /\ push_history(Append(nodes, mouse),
                                    Append(node_is_anchor, FALSE), beams)
                    /\ selected_node' = selected_node
               ELSE IF selected_node = None
               THEN /\ selected_node' = clicked
                    /\ UNCHANGED <<build_vars, hist_vars>>
               ELSE LET a == selected_node
                        b == clicked
                    IN  IF CanConnect(a, b)
                        THEN /\ CanPush(cap)
                             /\ beams' = Append(beams, <<a, b>>)
                             /\ UNCHANGED <<nodes, node_is_anchor>>
                             /\ push_history(nodes, node_is_anchor,
                                             Append(beams, <<a, b>>))
                             /\ selected_node' = None
                        ELSE /\ selected_node' = None
                             /\ UNCHANGED <<build_vars, hist_vars>>
            /\ UNCHANGED <<simulate_mode, phys_vars, mouse, pc, fractured, phases, run_start>>

\* MOUSEBUTTONDOWN button 3: toggle anchor.
right_click(cap) ==
    /\ pc = "events"
    /\ IF simulate_mode THEN UNCHANGED vars
       ELSE
        LET clicked == find_node_at_position(mouse[1], mouse[2])
        IN  /\ IF clicked # None
               THEN LET toggled == [node_is_anchor EXCEPT ![clicked + 1] = ~@]
                    IN  /\ CanPush(cap)
                        /\ node_is_anchor' = toggled
                        /\ UNCHANGED <<nodes, beams>>
                        /\ push_history(nodes, toggled, beams)
               ELSE UNCHANGED <<build_vars, hist_vars>>
            /\ UNCHANGED <<selected_node, simulate_mode, phys_vars, mouse, pc,
                           fractured, phases, run_start>>

\* MOUSEBUTTONDOWN button 2: delete a node or a beam.
middle_click(cap) ==
    /\ pc = "events"
    /\ IF simulate_mode THEN UNCHANGED vars
       ELSE
        LET clicked_node == find_node_at_position(mouse[1], mouse[2])
            beam_index == find_beam_at_position(mouse[1], mouse[2])
        IN  /\ IF clicked_node # None
               THEN LET d == delete_node(clicked_node)
                    IN  /\ CanPush(cap)
                        /\ nodes' = d.nodes
                        /\ node_is_anchor' = d.node_is_anchor
                        /\ beams' = d.beams
                        /\ push_history(d.nodes, d.node_is_anchor, d.beams)
                        /\ pc' = pc
               ELSE IF beam_index = IndexError
               THEN /\ pc' = "crashed"
                    /\ UNCHANGED <<build_vars, hist_vars>>
               ELSE IF beam_index # None
               THEN /\ CanPush(cap)
                    /\ beams' = DelAt(beams, beam_index)
                    /\ UNCHANGED <<nodes, node_is_anchor>>
                    /\ push_history(nodes, node_is_anchor, DelAt(beams, beam_index))
                    /\ pc' = pc
               ELSE UNCHANGED <<build_vars, hist_vars, pc>>
            /\ UNCHANGED <<selected_node, simulate_mode, phys_vars, mouse,
                           fractured, phases, run_start>>

\* ---------------------------------------------------------- physics update
\* The fracture pass placed before the physics step (mutant of NextPhase).
NextPhaseFractureFirst(phase) ==
    CASE phase = "sync" -> "fracture"
      [] phase = "fracture" -> "step"
      [] phase = "step" -> "draw"

\* Where the loop body goes after a phase of the physics update:
\* update_beam_collision_shapes(); space.step(1 / 60); the fracture pass; drawing.
NextPhase(phase) ==
    CASE phase = "sync" -> "step"
      [] phase = "step" -> "fracture"
      [] phase = "fracture" -> "draw"

\* update_beam_collision_shapes(), first phase of "if simulate_mode and space
\* is not None". The mouse position is not read again in this frame.
UpdateBeamCollisionShapes ==
    /\ pc = "events"
    /\ simulate_mode /\ space # Nil
    /\ LET n == CHOOSE m \in {Len(beam_indices), Len(pm_beam_bodies), Len(pm_beam_shapes)} :
                    \A l \in {Len(beam_indices), Len(pm_beam_bodies), Len(pm_beam_shapes)} : m <= l
           ns == CHOOSE m \in {Len(static_beams), Len(pm_beam_bodies_static),
                               Len(pm_beam_shapes_static)} :
                    \A l \in {Len(static_beams), Len(pm_beam_bodies_static),
                              Len(pm_beam_shapes_static)} : m <= l
           dyn(k) == SyncCollider(pm_beam_bodies[k].id,
                                  pm_nodes[beam_indices[k][1] + 1].position,
                                  pm_nodes[beam_indices[k][2] + 1].position)
           sta(k) == SyncCollider(pm_beam_bodies_static[k].id,
                                  pm_nodes[static_beams[k][1] + 1].position,
                                  pm_nodes[static_beams[k][2] + 1].position)
       IN  /\ pm_beam_bodies' = [k \in 1..Len(pm_beam_bodies) |->
                                    IF k <= n THEN dyn(k).body ELSE pm_beam_bodies[k]]
           /\ pm_beam_shapes' = [k \in 1..Len(pm_beam_shapes) |->
                                    IF k <= n THEN dyn(k).shape ELSE pm_beam_shapes[k]]
           /\ pm_beam_bodies_static' = [k \in 1..Len(pm_beam_bodies_static) |->
                                    IF k <= ns THEN sta(k).body
                                    ELSE pm_beam_bodies_static[k]]
           /\ pm_beam_shapes_static' = [k \in 1..Len(pm_beam_shapes_static) |->
                                    IF k <= ns THEN sta(k).shape
                                    ELSE pm_beam_shapes_static[k]]
    /\ pc' = NextPhase("sync")
    /\ phases' = Append(phases, "sync")
    /\ mouse' = Nil
    /\ UNCHANGED <<build_vars, selected_node, simulate_mode, hist_vars,
                   space, pm_nodes, pm_joints_pin, pm_joints_spring, rest_lengths,
                   pm_load, beam_indices, static_beams, pm_bend_springs,
                   beam_stress, fractured, run_start>>

\* The frame's physics update is skipped: not simulating, or no space.
SkipPhysicsUpdate ==
    /\ pc = "events"
    /\ ~(simulate_mode /\ space # Nil)
    /\ pc' = "draw"
    /\ mouse' = Nil
    /\ UNCHANGED <<build_vars, selected_node, simulate_mode, hist_vars, phys_vars,
                   fractured, phases, run_start>>

\* space.step(1 / 60) with outcomes bounded by Ys: every DYNAMIC node body
\* may end at any y of Ys; STATIC and KINEMATIC bodies do not move.
space_step(Ys) ==
    /\ pc = "step"
    /\ LET dynamic == {i \in 1..Len(pm_nodes) : pm_nodes[i].body_type = "DYNAMIC"}
       IN  \E f \in [dynamic -> Ys] :
              pm_nodes' = [i \in 1..Len(pm_nodes) |->
                             IF i \in dynamic
                             THEN [pm_nodes[i] EXCEPT !.position = <<@[1], f[i]>>]
                             ELSE pm_nodes[i]]
    /\ pc' = NextPhase("step")
    /\ phases' = Append(phases, "step")
    /\ UNCHANGED <<build_vars, selected_node, simulate_mode, hist_vars,
                   space, pm_joints_pin, pm_joints_spring, rest_lengths, pm_load,
                   beam_indices, pm_beam_bodies, pm_beam_shapes,
                   static_beams, pm_beam_bodies_static, pm_beam_shapes_static,
                   pm_bend_springs, beam_stress, mouse, fractured, run_start>>


\* The beam breaking / plastic deformation / stress pass.
FracturePass ==
    /\ pc = "fracture"
    /\ LET r == FractureLoop(1, PassStart)
       IN  /\ beam_indices' = r.beam_indices
           /\ rest_lengths' = r.rest_lengths
           /\ pm_joints_pin' = r.pm_joints_pin
           /\ pm_joints_spring' = r.pm_joints_spring
           /\ pm_beam_bodies' = r.pm_beam_bodies
           /\ pm_beam_shapes' = r.pm_beam_shapes
           /\ beams' = r.beams
           /\ beam_stress' = r.beam_stress
           /\ space' = r.space
           /\ fractured' = r.fractured
    /\ pc' = NextPhase("fracture")
    /\ phases' = Append(phases, "fracture")
    /\ UNCHANGED <<nodes, node_is_anchor, selected_node, simulate_mode, hist_vars,
                   pm_nodes, pm_load, static_beams, pm_beam_bodies_static,
                   pm_beam_shapes_static, pm_bend_springs, mouse, run_start>>

\* Drawing (it indexes pm_nodes or nodes with every beam's endpoints), then
\* the next iteration's pygame.mouse.get_pos().
draw(points) ==
    /\ pc = "draw"
    /\ IF IndicesValid(beams, IF simulate_mode THEN Len(pm_nodes) ELSE Len(nodes))
       THEN /\ pc' = "events"
            /\ mouse' \in points
       ELSE /\ pc' = "crashed"
            /\ mouse' = mouse
    /\ phases' = <<>>
    /\ UNCHANGED <<build_vars, selected_node, simulate_mode, hist_vars, phys_vars,
                   fractured, run_start>>

\* ------------------------------------------------------------ the program
Init ==
    /\ nodes = <<>>
    /\ node_is_anchor = <<>>
    /\ beams = <<>>
    /\ selected_node = None
    /\ simulate_mode = FALSE
    /\ history = <<Snapshot(<<>>, <<>>, <<>>)>>
    /\ redo_stack = <<>>
    /\ space = Nil
    /\ pm_nodes = <<>>
    /\ pm_joints_pin = <<>>
    /\ pm_joints_spring = <<>>
    /\ rest_lengths = <<>>
    /\ pm_load = Nil
    /\ beam_indices = <<>>
    /\ pm_beam_bodies = <<>>
    /\ pm_beam_shapes = <<>>
    /\ static_beams = <<>>
    /\ pm_beam_bodies_static = <<>>
    /\ pm_beam_shapes_static = <<>>
    /\ pm_bend_springs = <<>>
    /\ beam_stress = EmptyStress
    /\ mouse \in Points(ClickYs)
    /\ pc = "events"
    /\ fractured = {}
    /\ phases = <<>>
    /\ run_start = Nil

KeyC == key_c(MaxHistory)
LeftClick == left_click(MaxHistory)
RightClick == right_click(MaxHistory)
MiddleClick == middle_click(MaxHistory)
SpaceStep == space_step(StepYs)
Draw == draw(Points(ClickYs))

Next ==
    \/ KeySpace
    \/ KeyZ
    \/ KeyY
    \/ KeyC
    \/ LeftClick
    \/ RightClick
    \/ MiddleClick
    \/ UpdateBeamCollisionShapes
    \/ SkipPhysicsUpdate
    \/ SpaceStep
    \/ FracturePass
    \/ Draw

Spec == Init /\ [][Next]_vars

\* --------------------------------------- starting from a built graph
\* The history the editor holds after building graph g from nothing by
\* placing its nodes in order, then toggling its anchors in index order,
\* then connecting its beams in order.
BuiltHistory(g) ==
    LET n == Len(g.nodes)
        anchored == {i \in 1..n : g.node_is_anchor[i]}
        none == [i \in 1..n |-> FALSE]
        placing == [k \in 1..n |->
                      Snapshot(SubSeq(g.nodes, 1, k), SubSeq(none, 1, k), <<>>)]
        toggled(i) == [j \in 1..n |-> j \in anchored /\ j <= i]
        toggling == [k \in 1..Cardinality(anchored) |->
                       LET i == CHOOSE i \in anchored :
                                  Cardinality({j \in anchored : j <= i}) = k
                       IN  Snapshot(g.nodes, toggled(i), <<>>)]
        connecting == [k \in 1..Len(g.beams) |->
                         Snapshot(g.nodes, g.node_is_anchor, SubSeq(g.beams, 1, k))]
    IN  <<Snapshot(<<>>, <<>>, <<>>)>> \o placing \o toggling \o connecting

\* The program in build mode holding graph g just built, at the top of a
\* frame with the mouse at one of points.
InitBuilt(graphs, points) ==
    /\ \E g \in graphs :
          /\ nodes = g.nodes
          /\ node_is_anchor = g.node_is_anchor
          /\ beams = g.beams
          /\ history = BuiltHistory(g)
    /\ selected_node = None
    /\ simulate_mode = FALSE
    /\ redo_stack = <<>>
    /\ space = Nil
    /\ pm_nodes = <<>>
    /\ pm_joints_pin = <<>>
    /\ pm_joints_spring = <<>>
    /\ rest_lengths = <<>>
    /\ pm_load = Nil
    /\ beam_indices = <<>>
    /\ pm_beam_bodies = <<>>
    /\ pm_beam_shapes = <<>>
    /\ static_beams = <<>>
    /\ pm_beam_bodies_static = <<>>
    /\ pm_beam_shapes_static = <<>>
    /\ pm_bend_springs = <<>>
    /\ beam_stress = EmptyStress
    /\ mouse \in points
    /\ pc = "events"
    /\ fractured = {}
    /\ phases = <<>>
    /\ run_start = Nil

Graph(ns, an, bs) == [nodes |-> ns, node_is_anchor |-> an, beams |-> bs]
P0 == <<0, 0>>
P1 == <<0, 20>>
P2 == <<0, 40>>

\* Graphs the runs start from: one elastic beam below an anchor; one static
\* beam; a node between two anchors; a chain; a free beam stored (1, 0); a
\* triangle hung from an anchor.
RunGraphs ==
    { Graph(<<P0, P1>>, <<TRUE, FALSE>>, << <<0, 1>> >>),
      Graph(<<P0, P1>>, <<TRUE, TRUE>>, << <<0, 1>> >>),
      Graph(<<P0, P1, P2>>, <<TRUE, FALSE, TRUE>>,
            << <<0, 1>>, <<2, 1>>, <<0, 2>> >>),
      Graph(<<P0, P1, P2>>, <<TRUE, FALSE, FALSE>>, << <<0, 1>>, <<1, 2>> >>),
      Graph(<<P0, P1>>, <<FALSE, FALSE>>, << <<1, 0>> >>),
      Graph(<<P0, P1, P2>>, <<TRUE, FALSE, FALSE>>,
            << <<0, 1>>, <<1, 2>>, <<2, 0>> >>) }

InitRun == InitBuilt(RunGraphs, Points(RunClickYs))

SpaceStepRun == space_step(RunStepYs)
DrawRun == draw(Points(RunClickYs))

NextRun ==
    \/ KeySpace
    \/ UpdateBeamCollisionShapes
    \/ SkipPhysicsUpdate
    \/ SpaceStepRun
    \/ FracturePass
    \/ DrawRun

SpecRun == InitRun /\ [][NextRun]_vars

\* Graphs the editor continues from: three nodes with a chain, with one beam,
\* and with an anchor and a beam stored (2, 0).
EditGraphs ==
    { Graph(<<P0, P1, P2>>, <<FALSE, FALSE, FALSE>>, << <<0, 1>>, <<1, 2>> >>),
      Graph(<<P0, P1, P2>>, <<FALSE, FALSE, FALSE>>, << <<1, 2>> >>),
      Graph(<<P0, P1, P2>>, <<TRUE, FALSE, FALSE>>, << <<2, 0>>, <<1, 2>> >>) }

InitEdit == InitBuilt(EditGraphs, Points(EditClickYs))

KeyCEdit == key_c(MaxHistoryEdit)
LeftClickEdit == left_click(MaxHistoryEdit)
RightClickEdit == right_click(MaxHistoryEdit)
MiddleClickEdit == middle_click(MaxHistoryEdit)
DrawEdit == draw(Points(EditClickYs))

NextEdit ==
    \/ KeyCEdit
    \/ LeftClickEdit
    \/ RightClickEdit
    \/ MiddleClickEdit
    \/ SkipPhysicsUpdate
    \/ DrawEdit

SpecEdit == InitEdit /\ [][NextEdit]_vars

\* ================================================================ claims

\* C1: in build mode every beam (a, b) of the authoring beam list has
\* 0 <= a < len(nodes) and 0 <= b < len(nodes).
C1_BeamIndicesValid ==
    ~simulate_mode =>
        \A k \in 1..Len(beams) :
            /\ 0 <= beams[k][1] /\ beams[k][1] < Len(nodes)
            /\ 0 <= beams[k][2] /\ beams[k][2] < Len(nodes)

\* C2: delete_node(i) on a graph with valid indices removes exactly the beams
\* touching i, keeps the others in order rewritten to (p - (p > i), q - (q > i)),
\* and drops element i from the node list and from the anchor list.
C2_Shift(p, i) == IF p > i THEN p - 1 ELSE p
C2_DeleteNodeReindexes ==
    [][\A i \in 0..(Len(nodes) - 1) :
          ( /\ MiddleClickEdit
            /\ ~simulate_mode
            /\ find_node_at_position(mouse[1], mouse[2]) = i
            /\ IndicesValid(beams, Len(nodes))
            /\ Len(nodes) = Len(node_is_anchor) )
          => LET kept == SelectSeq(beams, LAMBDA e : e[1] # i /\ e[2] # i)
             IN  /\ beams' = [k \in 1..Len(kept) |->
                                <<C2_Shift(kept[k][1], i), C2_Shift(kept[k][2], i)>>]
                 /\ nodes' = SubSeq(nodes, 1, i) \o SubSeq(nodes, i + 2, Len(nodes))
                 /\ node_is_anchor' = SubSeq(node_is_anchor, 1, i)
                                      \o SubSeq(node_is_anchor, i + 2, Len(node_is_anchor))
                 /\ Len(nodes') = Len(node_is_anchor')
                 /\ Len(nodes') = Len(nodes) - 1
      ]_vars

\* C2 witness: the snapshot just pushed has one node fewer than the one
\* before it, lost a beam, and holds a beam that was rewritten.
C2_Witness ==
    /\ Len(history) >= 2
    /\ LET before == history[Len(history) - 1]
           after == history[Len(history)]
       IN  /\ after = Snapshot(nodes, node_is_anchor, beams)
           /\ Len(before[1]) = Len(nodes) + 1
           /\ IndicesValid(before[3], Len(before[1]))
           /\ Len(beams) >= 1
           /\ Len(beams) < Len(before[3])
           /\ \E k \in 1..Len(beams) : ~In(beams[k], before[3])

C_PosIn(ab, l) ==
    IF In(ab, l) THEN CHOOSE k \in 1..Len(l) : l[k] = ab ELSE 0

\* C4: in a tick, an elastic beam alive before the fracture pass is removed
\* by it iff dist > 1.4 * rest or dist < 0.7 * rest (strictly); a removed beam
\* is gone from the live elastic list, the stress map and the beam list in
\* both orientations.
C4_FractureRule ==
    [][FracturePass =>
         \A k \in 1..Len(beam_indices) :
            LET a == beam_indices[k][1]
                b == beam_indices[k][2]
                rest == rest_lengths[k]
                dist == Dist(pm_nodes, a, b)
                removed == ~In(<<a, b>>, beam_indices')
            IN  /\ removed <=> (10 * dist > 14 * rest \/ 10 * dist < 7 * rest)
                /\ removed =>
                     /\ {a, b} \notin DOMAIN beam_stress'
                     /\ ~In(<<a, b>>, beams') /\ ~In(<<b, a>>, beams')
      ]_vars

\* C4 witness: a pass has just ended that removed a beam held at less than
\* 0.7 of its built length or more than 1.4 of it, and kept another beam.
C4_Witness ==
    /\ pc = "draw" /\ simulate_mode
    /\ beam_indices # <<>>
    /\ \E a, b \in 0..(Len(pm_nodes) - 1) :
          /\ {a, b} \in fractured
          /\ LET built == Length(nodes[a + 1][1] - nodes[b + 1][1],
                                 nodes[a + 1][2] - nodes[b + 1][2])
                 dist == Dist(pm_nodes, a, b)
             IN  10 * dist > 14 * built \/ 10 * dist < 7 * built

\* C5: a beam removed by the fracture pass is in neither the live beam lists
\* nor the stress map for the rest of that run.
C5_NoReappearance ==
    simulate_mode =>
        \A key \in fractured :
            /\ key \notin DOMAIN beam_stress
            /\ \A k \in 1..Len(beam_indices) : Key(beam_indices[k]) # key
            /\ \A k \in 1..Len(beams) : Key(beams[k]) # key

\* C5 witness: in a later tick the endpoints of a fractured beam are back at
\* the distance the beam was built with, and the beam is still gone.
C5_Witness ==
    /\ pc = "draw" /\ simulate_mode
    /\ \E a, b \in 0..(Len(pm_nodes) - 1) :
          /\ a # b
          /\ {a, b} \in fractured
          /\ Dist(pm_nodes, a, b) = Length(nodes[a + 1][1] - nodes[b + 1][1],
                                           nodes[a + 1][2] - nodes[b + 1][2])

\* C6: while a beam stays alive in a run its rest length never decreases; it
\* changes only in a fracture pass that keeps the beam with
\* dist > 1.05 * rest, and then the recorded rest length and the spring's
\* rest length are both dist; otherwise both are carried over.
C6_PlasticRatchet ==
    [][(simulate_mode /\ simulate_mode') =>
         \A k \in 1..Len(beam_indices) :
            LET j == C_PosIn(beam_indices[k], beam_indices')
                rest == rest_lengths[k]
                dist == Dist(pm_nodes, beam_indices[k][1], beam_indices[k][2])
            IN  j # 0 =>
                  /\ rest_lengths'[j] >= rest
                  /\ IF pc = "fracture" /\ 100 * dist > 105 * rest
                     THEN /\ rest_lengths'[j] = dist
                          /\ pm_joints_spring'[j].rest_length = dist
                     ELSE /\ rest_lengths'[j] = rest
                          /\ pm_joints_spring'[j] = pm_joints_spring[k]
      ]_vars

\* C6 witness: a live beam's rest length and its spring's rest length are
\* both above the length the beam was built with.
C6_Witness ==
    /\ pc = "draw" /\ simulate_mode
    /\ \E k \in 1..Len(beam_indices) :
          LET a == beam_indices[k][1]
              b == beam_indices[k][2]
              built == Length(nodes[a + 1][1] - nodes[b + 1][1],
                              nodes[a + 1][2] - nodes[b + 1][2])
          IN  /\ rest_lengths[k] > built
              /\ pm_joints_spring[k].rest_length = rest_lengths[k]

\* The unordered pairs of the pairs in list l.
C_Keys(l) == {Key(l[k]) : k \in 1..Len(l)}

\* C7: a beam with both endpoints anchored when the run started is a static
\* beam without rest length, pin or spring, stays in the static beam list and
\* the beam list for the whole run, and its stress entry is exactly 0.
C7_StaticBeamImmutable ==
    (simulate_mode /\ pc # "crashed") =>
        /\ Len(rest_lengths) = Len(beam_indices)
        /\ Len(pm_joints_pin) = Len(beam_indices)
        /\ Len(pm_joints_spring) = Len(beam_indices)
        /\ \A a, b \in 0..(Len(nodes) - 1) :
              ( /\ node_is_anchor[a + 1] /\ node_is_anchor[b + 1]
                /\ {a, b} \in C_Keys(beams) \cup fractured )
              => /\ {a, b} \in C_Keys(static_beams)
                 /\ {a, b} \notin C_Keys(beam_indices)
                 /\ {a, b} \in C_Keys(beams)
                 /\ {a, b} \in DOMAIN beam_stress
                 /\ beam_stress[{a, b}] = Zero

\* C7 witness: a run with a static beam in which a node has moved and an
\* elastic beam has fractured.
C7_Witness ==
    /\ pc = "draw" /\ simulate_mode
    /\ static_beams # <<>>
    /\ fractured # {}
    /\ \E i \in 1..Len(pm_nodes) : pm_nodes[i].position # nodes[i]

\* C8: after start_simulation and after every tick the keys of the stress
\* map are exactly the unordered pairs of the live elastic and static beams.
C8_StressKeysAreAliveBeams ==
    (simulate_mode /\ pc # "crashed") =>
        DOMAIN beam_stress = C_Keys(beam_indices) \cup C_Keys(static_beams)

\* C8 witness: a tick has ended with a fractured beam, a live elastic beam
\* and a static beam.
C8_Witness ==
    /\ pc = "events" /\ simulate_mode
    /\ fractured # {}
    /\ beam_indices # <<>>
    /\ static_beams # <<>>

\* C9: for a beam that survives a pass the stored strain is (dist - rest) /
\* rest for the rest length in force after the pass (0 when that is 0):
\* positive when dist > rest, negative when dist < rest, 0 when equal.
C9_StrainValue ==
    [][FracturePass =>
         \A j \in 1..Len(beam_indices') :
            LET a == beam_indices'[j][1]
                b == beam_indices'[j][2]
                rest == rest_lengths'[j]
                dist == Dist(pm_nodes, a, b)
                strain == beam_stress'[{a, b}]
            IN  /\ strain[2] > 0
                /\ IF rest # 0
                   THEN strain[1] * rest = (dist - rest) * strain[2]
                   ELSE strain[1] = 0
                /\ dist > rest => strain[1] > 0
                /\ dist < rest => strain[1] < 0
                /\ dist = rest => strain[1] = 0
      ]_vars

\* C9 witness: after a pass one live beam holds a negative strain and a
\* beam that yielded in an earlier pass holds a positive one.
C9_Witness ==
    /\ pc = "draw" /\ simulate_mode
    /\ \E k \in 1..Len(beam_indices) : beam_stress[Key(beam_indices[k])][1] < 0
    /\ \E k \in 1..Len(beam_indices) :
          LET a == beam_indices[k][1]
              b == beam_indices[k][2]
          IN  /\ beam_stress[{a, b}][1] > 0
              /\ rest_lengths[k] > Length(nodes[a + 1][1] - nodes[b + 1][1],
                                          nodes[a + 1][2] - nodes[b + 1][2])

\* C10: in a loop iteration that is simulating, collider synchronisation, the
\* physics step and the fracture pass run once each in that order (so the
\* pass reads the positions this iteration's step left); in an iteration
\* that is not simulating none of them runs.
C10_PhaseOrder ==
    /\ pc = "events" => phases = <<>>
    /\ pc = "step" => simulate_mode /\ phases = <<"sync">>
    /\ pc = "fracture" => simulate_mode /\ phases = <<"sync", "step">>
    /\ pc = "draw" =>
          phases = IF simulate_mode THEN <<"sync", "step", "fracture">> ELSE <<>>

\* C10 witness: a simulating iteration is about to draw after a physics step
\* that moved a node.
C10_Witness ==
    /\ pc = "draw" /\ simulate_mode
    /\ phases = <<"sync", "step", "fracture">>
    /\ \E i \in 1..Len(pm_nodes) : pm_nodes[i].position # nodes[i]

\* Whether no physics object is held: every list and the stress map empty,
\* no load.
C_NoWorld ==
    /\ pm_nodes = <<>> /\ beam_indices = <<>> /\ rest_lengths = <<>>
    /\ pm_joints_pin = <<>> /\ pm_joints_spring = <<>>
    /\ pm_beam_bodies = <<>> /\ pm_beam_shapes = <<>>
    /\ static_beams = <<>> /\ pm_beam_bodies_static = <<>>
    /\ pm_beam_shapes_static = <<>>
    /\ pm_bend_springs = <<>>
    /\ DOMAIN beam_stress = {}
    /\ pm_load = Nil

\* Whether the beam e joins two anchored nodes of the authoring graph.
C_BothAnchored(e) == node_is_anchor[e[1] + 1] /\ node_is_anchor[e[2] + 1]

\* C11: simulate_mode changes only on SPACE; it is true iff a physics world
\* exists; outside a run every physics list and the stress map are empty and
\* there is no load; and a start leaves a world that is a function of the
\* authoring graph alone: bodies at the authored positions, the beams split
\* into elastic and static in list order, rest lengths the authored
\* distances, every strain 0.
C11_Lifecycle ==
    /\ [](simulate_mode <=> space # Nil)
    /\ [](~simulate_mode => C_NoWorld)
    /\ [][simulate_mode' # simulate_mode => KeySpace]_vars
    /\ [][(KeySpace /\ ~simulate_mode /\ pc' # "crashed") =>
            LET elastic == SelectSeq(beams, LAMBDA e : ~C_BothAnchored(e))
                static == SelectSeq(beams, C_BothAnchored)
                built(e) == Length(nodes[e[1] + 1][1] - nodes[e[2] + 1][1],
                                   nodes[e[1] + 1][2] - nodes[e[2] + 1][2])
            IN  /\ Len(pm_nodes') = Len(nodes)
                /\ \A i \in 1..Len(nodes) : pm_nodes'[i].position = nodes[i]
                /\ beam_indices' = elastic
                /\ static_beams' = static
                /\ rest_lengths' = [k \in 1..Len(elastic) |-> built(elastic[k])]
                /\ Len(pm_joints_pin') = Len(elastic)
                /\ Len(pm_joints_spring') = Len(elastic)
                /\ \A k \in 1..Len(elastic) :
                      pm_joints_spring'[k].rest_length = built(elastic[k])
                /\ Len(pm_beam_bodies') = Len(elastic)
                /\ Len(pm_beam_shapes') = Len(elastic)
                /\ Len(pm_beam_bodies_static') = Len(static)
                /\ Len(pm_beam_shapes_static') = Len(static)
                /\ \A k \in 1..Len(pm_bend_springs') :
                      pm_bend_springs'[k].rest_length =
                          built(<<pm_bend_springs'[k].a, pm_bend_springs'[k].b>>)
                /\ beam_stress' = [key \in C_Keys(beams) |-> Zero]
                /\ space'.constraints \cup space'.colliders \subseteq 0..(Len(beams) - 1)
                /\ pm_load' # Nil
         ]_vars

\* C11 witness: a run has just been started again after a run that moved
\* nodes and fractured a beam, and the new world is the freshly built one.
C11_Witness ==
    /\ pc = "events" /\ simulate_mode /\ phases = <<>>
    /\ fractured = {}
    /\ beams # history[Len(history)][3]
    /\ beam_indices # <<>>
    /\ \A i \in 1..Len(pm_nodes) : pm_nodes[i].position = nodes[i]
    /\ \A key \in DOMAIN beam_stress : beam_stress[key] = Zero

\* The beams of the list bs whose pair is not in the set gone, in order.
C_Survivors(bs, gone) == SelectSeq(bs, LAMBDA e : Key(e) \notin gone)

\* C12: throughout a run and in the state its stop leaves, the authoring
\* nodes and anchor flags are those the run started with and the authoring
\* beam list is the start-time list without the beams fractured in the run,
\* survivors in order; a start builds exactly one elastic or static beam
\* per beam of the list it finds, so it rebuilds no fractured beam.
C12_GraphAfterRun ==
    /\ [](simulate_mode =>
            /\ nodes = run_start[1]
            /\ node_is_anchor = run_start[2]
            /\ beams = C_Survivors(run_start[3], fractured))
    /\ [][(KeySpace /\ simulate_mode) =>
            /\ ~simulate_mode'
            /\ nodes' = run_start[1]
            /\ node_is_anchor' = run_start[2]
            /\ beams' = C_Survivors(run_start[3], fractured)
         ]_vars
    /\ [][(KeySpace /\ ~simulate_mode /\ pc' # "crashed") =>
            /\ C_Keys(beam_indices') \cup C_Keys(static_beams') = C_Keys(beams)
            /\ Len(beam_indices') + Len(static_beams') = Len(beams)
         ]_vars

\* C12 witness: the editor is idle after a run in which a beam fractured and
\* two beams survived; the nodes and anchors are the built ones.
C12_Witness ==
    /\ pc = "events" /\ ~simulate_mode
    /\ Len(beams) >= 2
    /\ Len(beams) < Len(history[Len(history)][3])
    /\ nodes = history[Len(history)][1]
    /\ node_is_anchor = history[Len(history)][2]

\* C13: a run's bend springs are one per (center, unordered pair of the
\* center's neighbours via the elastic beams built at the start), leaving out
\* the pairs of two anchored nodes: no bend spring joins two anchored nodes.
C13_BendSpringsSkipStaticPairs ==
    (simulate_mode /\ pc # "crashed") =>
        LET elastic == SelectSeq(run_start[3], LAMBDA e : ~C_BothAnchored(e))
            N == 0..(Len(nodes) - 1)
            nb(c) == {n \in N : \E k \in 1..Len(elastic) : Key(elastic[k]) = {c, n} /\ n # c}
            expected == {cp \in N \X (SUBSET N) :
                            /\ Cardinality(cp[2]) = 2
                            /\ cp[2] \subseteq nb(cp[1])
                            /\ \E n \in cp[2] : ~node_is_anchor[n + 1]}
        IN  /\ Len(pm_bend_springs) = Cardinality(expected)
            /\ {{pm_bend_springs[k].a, pm_bend_springs[k].b} :
                    k \in 1..Len(pm_bend_springs)} = {cp[2] : cp \in expected}
            /\ \A k \in 1..Len(pm_bend_springs) :
                  ~( /\ node_is_anchor[pm_bend_springs[k].a + 1]
                     /\ node_is_anchor[pm_bend_springs[k].b + 1] )

\* Whether position k of each of the six elastic-beam lists belongs to one
\* beam: the pin, spring, proxy body and proxy shape carry one handle, the
\* handle is the place of the pair in the beam list the run started with,
\* and the recorded rest length is the spring's.
C_SameBeam(k) ==
    LET id == pm_joints_pin[k].id
    IN  /\ pm_joints_spring[k].id = id
        /\ pm_beam_bodies[k].id = id
        /\ pm_beam_shapes[k].id = id
        /\ run_start[3][id + 1] = beam_indices[k]
        /\ pm_joints_spring[k].rest_length = rest_lengths[k]

\* C15: in a run the six elastic-beam lists have one length and position k
\* of each belongs to the same beam; a fracture pass looks at every beam
\* alive at its start once, drops the same positions from all six and keeps
\* the survivors in their relative order.
C15_ParallelLists ==
    /\ []((simulate_mode /\ pc # "crashed") =>
            /\ Len(rest_lengths) = Len(beam_indices)
            /\ Len(pm_joints_pin) = Len(beam_indices)
            /\ Len(pm_joints_spring) = Len(beam_indices)
            /\ Len(pm_beam_bodies) = Len(beam_indices)
            /\ Len(pm_beam_shapes) = Len(beam_indices)
            /\ \A k \in 1..Len(beam_indices) : C_SameBeam(k))
    /\ [][FracturePass =>
            LET alive == {k \in 1..Len(beam_indices) :
                             Key(beam_indices[k]) \notin fractured'}
                ids(l) == [k \in 1..Len(l) |-> l[k].id]
                keep(l) == SelectSeq(l, LAMBDA x : \E k \in alive : pm_joints_pin[k].id = x)
            IN  /\ Len(beam_indices') = Cardinality(alive)
                /\ Len(beam_indices) =
                      Cardinality(alive) + Cardinality(fractured' \ fractured)
                /\ beam_indices' = C_Survivors(beam_indices, fractured')
                /\ ids(pm_joints_pin') = keep(ids(pm_joints_pin))
                /\ ids(pm_joints_spring') = keep(ids(pm_joints_spring))
                /\ ids(pm_beam_bodies') = keep(ids(pm_beam_bodies))
                /\ ids(pm_beam_shapes') = keep(ids(pm_beam_shapes))
                /\ Len(rest_lengths') = Cardinality(alive)
         ]_vars

\* C15 witness: a pass has dropped a beam listed before a survivor, so the
\* survivor's objects moved up together in all six lists.
C15_Witness ==
    /\ pc = "draw" /\ simulate_mode
    /\ \E k \in 1..Len(beam_indices) :
          /\ pm_joints_pin[k].id > k - 1
          /\ run_start[3][pm_joints_pin[k].id] \notin
                {beam_indices[j] : j \in 1..Len(beam_indices)}
          /\ ~C_BothAnchored(run_start[3][pm_joints_pin[k].id])

\* C16: no step taken while simulating changes the node list, the anchor
\* flags, the selected node, the undo history or the redo stack; the beam
\* list changes only in the fracture pass, which removes the pairs that
\* fracture in it; and every index held in the elastic and static beam
\* lists is an index into the physical node list.
C16_EditorFrozenWhileRunning ==
    /\ [][(simulate_mode /\ simulate_mode') =>
            /\ nodes' = nodes
            /\ node_is_anchor' = node_is_anchor
            /\ selected_node' = selected_node
            /\ history' = history
            /\ redo_stack' = redo_stack
            /\ beams' = C_Survivors(beams, fractured' \ fractured)
            /\ (beams' # beams => pc = "fracture")
         ]_vars
    /\ [](simulate_mode =>
            /\ Len(pm_nodes) = Len(nodes)
            /\ \A k \in 1..Len(beam_indices) :
                  /\ beam_indices[k][1] \in 0..(Len(pm_nodes) - 1)
                  /\ beam_indices[k][2] \in 0..(Len(pm_nodes) - 1)
            /\ \A k \in 1..Len(static_beams) :
                  /\ static_beams[k][1] \in 0..(Len(pm_nodes) - 1)
                  /\ static_beams[k][2] \in 0..(Len(pm_nodes) - 1))

\* C16 witness: the loop is taking events in a run in which a beam has
\* fractured, with a node still selected, an undoable history and a
\* non-empty redo stack, and the mouse on a node of the graph.
C16_Witness ==
    /\ pc = "events" /\ simulate_mode
    /\ fractured # {}
    /\ selected_node # None
    /\ Len(history) > 1
    /\ redo_stack # <<>>
    /\ find_node_at_position(mouse[1], mouse[2]) # None

\* The one-to-one orders in which n positions can be visited.
C_Orders(n) == {p \in [1..n -> 1..n] : \A i, j \in 1..n : i # j => p[i] # p[j]}

RECURSIVE C_PassInOrder(_, _, _)
\* The fracture pass visiting the zipped positions in the order given.
C_PassInOrder(order, i, acc) ==
    IF i > Len(order) THEN acc
    ELSE C_PassInOrder(order, i + 1, FractureBeam(order[i], acc))

\* C17: with the node positions a physics step left, the pass visiting the
\* live elastic beams in any order ends with the same survivors, the same
\* rest length for each survivor, the same stress map and the same beam
\* list as the pass the program runs.
C17_PassOrderIndependent ==
    [][FracturePass =>
         \A order \in C_Orders(Len(beam_indices)) :
            LET r == C_PassInOrder(order, 1, PassStart)
                rests(bi, rl) == {<<bi[k], rl[k]>> : k \in 1..Len(bi)}
            IN  /\ Len(r.beam_indices) = Len(beam_indices')
                /\ Len(r.rest_lengths) = Len(r.beam_indices)
                /\ rests(r.beam_indices, r.rest_lengths)
                      = rests(beam_indices', rest_lengths')
                /\ r.beam_stress = beam_stress'
                /\ r.beams = beams'
                /\ r.fractured = fractured'
      ]_vars

\* C17 witness: a pass over three elastic beams has just broken one, left
\* one yielded and left one as it was.
C17_Witness ==
    /\ pc = "draw" /\ simulate_mode
    /\ Len(beam_indices) = 2
    /\ Cardinality(fractured) = 1
    /\ \E j, k \in 1..Len(beam_indices) :
          /\ pm_joints_spring[j].rest_length >
                Length(nodes[beam_indices[j][1] + 1][1] - nodes[beam_indices[j][2] + 1][1],
                       nodes[beam_indices[j][1] + 1][2] - nodes[beam_indices[j][2] + 1][2])
          /\ beam_stress[Key(beam_indices[k])][1] < 0

C19_UndoRedoRoundTrip ==
    [][ /\ ~simulate_mode' =>
              Snapshot(nodes', node_is_anchor', beams') = history'[Len(history')]
        /\ (KeyZ /\ ~simulate_mode /\ Len(history) > 1) =>
              redo_stack'[Len(redo_stack')] = Snapshot(nodes, node_is_anchor, beams)
      ]_vars

\* C20: any two distinct authoring nodes are at least 8 pixels apart
\* (squared distance at least 64), and in a run every elastic beam's rest
\* length, recorded and in its spring, is strictly positive, so the strain
\* is never computed by the rest = 0 branch.
C20_NodesApartRestPositive ==
    /\ \A i, j \in 1..Len(nodes) :
          i # j =>
             (nodes[i][1] - nodes[j][1]) * (nodes[i][1] - nodes[j][1])
           + (nodes[i][2] - nodes[j][2]) * (nodes[i][2] - nodes[j][2]) >= 64
    /\ simulate_mode =>
          /\ \A k \in 1..Len(rest_lengths) : rest_lengths[k] > 0
          /\ \A k \in 1..Len(pm_joints_spring) : pm_joints_spring[k].rest_length > 0

\* C20 witness: with two nodes placed, a click 5 pixels from a node has
\* selected that node instead of placing a third.
C20_Witness ==
    /\ pc = "events" /\ ~simulate_mode
    /\ Len(nodes) = 2
    /\ mouse \notin {nodes[i] : i \in 1..Len(nodes)}
    /\ find_node_at_position(mouse[1], mouse[2]) # None
    /\ selected_node = find_node_at_position(mouse[1], mouse[2])

====
